---- MODULE Spec2Model ----
(***************************************************************************)
(* Model of src/app.py: a Streamlit dashboard over a SQLite database.      *)
(*                                                                         *)
(* Every browser session runs the script top to bottom on each interaction *)
(* (a "request"), in a thread of its own.  All sessions share one cached   *)
(* sqlite3 connection (get_connection, check_same_thread=False), hence one *)
(* transaction: a statement executed by one session is visible to every    *)
(* other session at once, with or without the commit that follows it.      *)
(* One SQL statement is atomic; a request that reads and later writes is   *)
(* two steps, and requests of other sessions may run between them.         *)
(* A session runs one request at a time.                                   *)
(***************************************************************************)
EXTENDS Integers, Sequences, FiniteSets, TLC

\* ------------------------------------------------------------------ bounds

\* Largest primary key the store hands out in the model.
MaxPK == 2

\* Largest number of rows held by the four data tables together.
MaxRows == 2

\* Browser sessions (script threads) sharing the connection.
Sessions == {"A", "B"}

\* What the operators type into the text inputs.  "" is an empty input.
Usernames == {"alice", "bob"}
Passwords == {"secret123", "wrong"}
TypedUsernames == Usernames \cup {""}
TypedPasswords == Passwords \cup {""}

\* Values typed into a number_input of the Create / Update forms.
Values == {0, 1}

\* The tables the operators select in the table selector: one where the
\* model follows signing up and logging in as well, two where it follows the
\* forms alone.  The other tables stay as they are.
GateTables == {"establishment"}
CrudTables == {"establishment", "inspection"}

\* Python's None / SQL NULL, and a present value.
None == << >>
Some(x) == << x >>

\* ------------------------------------------------------- program constants

\* tables = ["establishment", "employee", "inspection", "violation"]
tables == {"establishment", "employee", "inspection", "violation"}

\* Columns of a data table, in declared order, as pd.read_sql returns them:
\* the key column and two more (the store's schema is the same shape for
\* every table here).
columns == << "id", "c1", "c2" >>

\* pk = df.columns[0]
pk == columns[1]

\* The columns of the Create / Update forms: all but the primary key.
form_columns == { columns[i] : i \in 2..Len(columns) }

\* Form contents: inputs / updates, one value per non-PK column.
Forms(V) == [form_columns -> V]

\* The values a Create form holds untouched (number_input value=0).
DefaultValues == {0}

VARIABLES
    users,      \* the users table: rows (username, password) in storage order
    db,         \* the data tables: table name -> set of rows
    logged_in,  \* st.session_state.logged_in, per session
    user,       \* st.session_state.user, per session
    pc,         \* where each session's running request stands
    last        \* what the most recently finished request did and showed

vars == << users, db, logged_in, user, pc, last >>

Idle == [kind |-> "idle"]

\* The record of a finished request: the page's action and the message it
\* showed.  auth is the session's logged_in flag when the request ran.  For
\* a request that executed an INSERT, UPDATE or DELETE: keyed tells that the
\* statement's key was not NULL, matched how many rows it touched, stale
\* that the row the form was filled from was no longer in the table.
Done(s, op, msg, keyed, matched, stale) ==
    [op |-> op, msg |-> msg, auth |-> logged_in[s],
     keyed |-> keyed, matched |-> matched, stale |-> stale]

Shown(s, op, msg) == Done(s, op, msg, FALSE, 0, FALSE)

\* ------------------------------------------------------------ auth helpers

\* hashlib.sha256(pw.encode()).hexdigest(): a digest, never the password
\* itself; distinct passwords have distinct digests.
hash_pw(pw) == "sha256:" \o pw

\* SELECT ... FROM users WHERE username = ?  -- the matching rows of the
\* users table tbl, by position.
RowsOf(tbl, u) == { i \in 1..Len(tbl) : tbl[i].username = u }

UserRows(u) == RowsOf(users, u)

\* Faulty variant: the password is not compared.
check_credentials_nopw(tbl, u, pw) == RowsOf(tbl, u) # {}

\* row = SELECT password ... fetchone(); bool(row and row[0] == hash_pw(pw))
\* tbl is the users table the shared connection reads.
check_credentials(tbl, u, pw) ==
    /\ RowsOf(tbl, u) # {}
    /\ LET row == tbl[CHOOSE i \in RowsOf(tbl, u) : \A j \in RowsOf(tbl, u) : i <= j]
       IN  row.password = hash_pw(pw)

\* Faulty variant: the username lookup is skipped.
UsernameTaken_never(u) == FALSE

\* conn.execute("SELECT 1 FROM users WHERE username = ?", (u,)).fetchone()
UsernameTaken(u) == UserRows(u) # {}

\* Faulty variant: a users table without the PRIMARY KEY constraint.
PrimaryKeyConflict_off(u) == FALSE

\* username TEXT PRIMARY KEY: the store rejects an INSERT of a username
\* that a row already holds.
PrimaryKeyConflict(u) == UserRows(u) # {}

\* Faulty variant: no guard.
Authenticated_always(s) == TRUE

\* The authentication guard: the script goes on past st.stop() only when
\* st.session_state.logged_in is set.
Authenticated(s) == logged_in[s]

\* ------------------------------------------------------------------- Init

\* init_user_table() has created an empty users table; the session state
\* init has run; the data tables exist and are empty.
Init ==
    /\ users = << >>
    /\ db = [t \in tables |-> {}]
    /\ logged_in = [s \in Sessions |-> FALSE]
    /\ user = [s \in Sessions |-> None]
    /\ pc = [s \in Sessions |-> Idle]
    /\ last = [op |-> "start", msg |-> "", auth |-> FALSE,
               keyed |-> FALSE, matched |-> 0, stale |-> FALSE]

\* ----------------------------------------------------------- auth screens

\* signup_page, "Create account" pressed: the input check and the SELECT.
signup_page(s, u, p) ==
    /\ pc[s] = Idle
    /\ ~Authenticated(s)
    /\ IF u = "" \/ p = ""
       THEN /\ last' = Shown(s, "Sign Up", "Both fields required.")
            /\ pc' = pc
       ELSE IF UsernameTaken(u)
       THEN /\ last' = Shown(s, "Sign Up", "Username already taken.")
            /\ pc' = pc
       ELSE /\ pc' = [pc EXCEPT ![s] = [kind |-> "signup", u |-> u, p |-> p]]
            /\ last' = last
    /\ UNCHANGED << users, db, logged_in, user >>

\* signup_page, the INSERT and commit that follow a passed check.  The
\* PRIMARY KEY constraint makes the INSERT raise when the username has been
\* inserted meanwhile; the exception ends the request.
signup_insert(s) ==
    /\ pc[s].kind = "signup"
    /\ IF PrimaryKeyConflict(pc[s].u)
       THEN /\ users' = users
            /\ last' = Shown(s, "Sign Up", "IntegrityError")
       ELSE /\ users' = Append(users, [username |-> pc[s].u,
                                        password |-> hash_pw(pc[s].p)])
            /\ last' = Shown(s, "Sign Up", "Account created!")
    /\ pc' = [pc EXCEPT ![s] = Idle]
    /\ UNCHANGED << db, logged_in, user >>

\* login_page, "Log In" pressed.
login_page(s, u, p) ==
    /\ pc[s] = Idle
    /\ ~Authenticated(s)
    /\ IF check_credentials(users, u, p)
       THEN /\ logged_in' = [logged_in EXCEPT ![s] = TRUE]
            /\ user' = [user EXCEPT ![s] = Some(u)]
            /\ last' = Shown(s, "Log In", "Welcome")
       ELSE /\ UNCHANGED << logged_in, user >>
            /\ last' = Shown(s, "Log In", "Invalid credentials.")
    /\ UNCHANGED << users, db, pc >>

\* The sidebar's "Log Out" button.
LogOut(s) ==
    /\ pc[s] = Idle
    /\ Authenticated(s)
    /\ logged_in' = [logged_in EXCEPT ![s] = FALSE]
    /\ last' = Shown(s, "Log Out", "")
    /\ UNCHANGED << users, db, user, pc >>

AuthStep(s) ==
    \/ \E u \in TypedUsernames, p \in TypedPasswords : signup_page(s, u, p)
    \/ signup_insert(s)
    \/ \E u \in TypedUsernames, p \in TypedPasswords : login_page(s, u, p)
    \/ LogOut(s)

\* ------------------------------------------------------------------ store

\* df[pk].tolist(): the primary-key values of the rows read.
PKs(df) == { r[pk] : r \in df }

TotalRows == Cardinality(UNION { { << t, r >> : r \in db[t] } : t \in tables })

\* WHERE <pk> = ?  -- a NULL parameter equals nothing.
Matches(r, rid) == rid # None /\ r[pk] = rid[1]

\* The key the store gives a row inserted without one: the first column of
\* a data table is its INTEGER PRIMARY KEY, so the store assigns the
\* largest key in the table plus one.
StoreAssignPK(df) ==
    IF df = {} THEN 1
    ELSE (CHOOSE k \in PKs(df) : \A j \in PKs(df) : j <= k) + 1

\* Faulty variant: the values are bound to the wrong columns.
insert_swapped(df, inputs) ==
    df \cup { [c \in DOMAIN inputs \cup {pk} |->
                 IF c = pk THEN StoreAssignPK(df)
                 ELSE inputs[CHOOSE d \in DOMAIN inputs :
                                 d # c \/ Cardinality(DOMAIN inputs) = 1]] }

\* INSERT INTO <table> (<cols>) VALUES (<qs>) with tuple(inputs.values()):
\* every form column gets its input, the primary key is left to the store.
insert(df, inputs) ==
    df \cup { [c \in DOMAIN inputs \cup {pk} |->
                 IF c = pk THEN StoreAssignPK(df) ELSE inputs[c]] }

\* Faulty variant: only the columns the operator edited are written.
update_changed_only(df, rid, updates, record) ==
    { IF Matches(r, rid)
      THEN [c \in DOMAIN r |->
              IF c # pk /\ updates[c] # record[c] THEN updates[c] ELSE r[c]]
      ELSE r : r \in df }

\* UPDATE <table> SET c=? (every form column) WHERE <pk> = ?
\* record is the row the form was filled from; the statement does not use it.
update(df, rid, updates, record) ==
    { IF Matches(r, rid)
      THEN [c \in DOMAIN r |-> IF c = pk THEN r[c] ELSE updates[c]]
      ELSE r : r \in df }

\* Faulty variant: a DELETE without its WHERE clause.
delete_no_where(df, rid) == {}

\* DELETE FROM <table> WHERE <pk> = ?
delete(df, rid) == { r \in df : ~Matches(r, rid) }

\* Rows a statement with WHERE <pk> = rid touches.
Matched(df, rid) == Cardinality({ r \in df : Matches(r, rid) })

\* Faulty variant: the widget offers keys that were not read in this run.
selectbox_any(options) == { Some(k) : k \in 1..MaxPK }

\* st.selectbox(label, options): the values the widget can return in this
\* run -- one of the options it was given, or None when there are none.
selectbox(options) ==
    IF options = {} THEN { None } ELSE { Some(k) : k \in options }

\* ---------------------------------------------------------- table actions

\* action == "Home": static text.
Home(s) ==
    /\ pc[s] = Idle
    /\ Authenticated(s)
    /\ last' = Shown(s, "Home", "")
    /\ UNCHANGED << users, db, logged_in, user, pc >>

\* action == "Read": SELECT * FROM <table>, shown as a dataframe.
Read(s, t) ==
    /\ pc[s] = Idle
    /\ Authenticated(s)
    /\ last' = Shown(s, "Read", "")
    /\ UNCHANGED << users, db, logged_in, user, pc >>

\* action == "Show Visualizations": five aggregate SELECTs.
ShowVisualizations(s) ==
    /\ pc[s] = Idle
    /\ Authenticated(s)
    /\ last' = Shown(s, "Show Visualizations", "")
    /\ UNCHANGED << users, db, logged_in, user, pc >>

\* action == "Create".  The SELECT at the top of the branch only shapes the
\* form (columns and dtypes); the INSERT does not depend on the rows read,
\* so the request is one step.  Without the button it renders the form.
Create(s, t, inputs, clicked) ==
    /\ pc[s] = Idle
    /\ Authenticated(s)
    /\ IF clicked
       THEN /\ TotalRows < MaxRows
            /\ StoreAssignPK(db[t]) <= MaxPK
            /\ db' = [db EXCEPT ![t] = insert(db[t], inputs)]
            /\ last' = Done(s, "Create", "Record inserted!",
                            FALSE, 1, FALSE)
       ELSE /\ db' = db
            /\ last' = Shown(s, "Create", "")
    /\ UNCHANGED << users, logged_in, user, pc >>

\* action == "Update", up to the button: the SELECT, the selectbox and the
\* row the form is filled from.  df[df[pk] == rid].iloc[0] raises IndexError
\* when no row of df has the key (the table is empty and rid is None), which
\* ends the request.
UpdateForm(s, t, clicked) ==
    /\ pc[s] = Idle
    /\ Authenticated(s)
    /\ LET df == db[t] IN
       \E rid \in selectbox(PKs(df)) :
          IF { r \in df : Matches(r, rid) } = {}
          THEN /\ last' = Shown(s, "Update", "IndexError")
               /\ pc' = pc
          ELSE LET record == CHOOSE r \in df : Matches(r, rid) IN
               IF clicked
               THEN /\ pc' = [pc EXCEPT ![s] = [kind |-> "Update", table |-> t,
                                                 rid |-> rid, record |-> record]]
                    /\ last' = last
               ELSE /\ last' = Shown(s, "Update", "")
                    /\ pc' = pc
    /\ UNCHANGED << users, db, logged_in, user >>

\* action == "Update", "Save changes" pressed: the UPDATE, the commit and
\* the success message.  updates holds the form: for each column the value
\* of record unless the operator typed another.
UpdateSave(s, updates) ==
    /\ pc[s].kind = "Update"
    /\ LET t == pc[s].table
           rid == pc[s].rid
       IN  /\ db' = [db EXCEPT ![t] = update(db[t], rid, updates, pc[s].record)]
           /\ last' = Done(s, "Update", "Record updated!", rid # None,
                           Matched(db[t], rid), pc[s].record \notin db[t])
    /\ pc' = [pc EXCEPT ![s] = Idle]
    /\ UNCHANGED << users, logged_in, user >>

\* action == "Delete", up to the button: the SELECT and the selectbox.
DeleteForm(s, t, clicked) ==
    /\ pc[s] = Idle
    /\ Authenticated(s)
    /\ \E rid \in selectbox(PKs(db[t])) :
          IF clicked
          THEN /\ pc' = [pc EXCEPT ![s] = [kind |-> "Delete", table |-> t,
                                            rid |-> rid]]
               /\ last' = last
          ELSE /\ last' = Shown(s, "Delete", "")
               /\ pc' = pc
    /\ UNCHANGED << users, db, logged_in, user >>

\* action == "Delete", "Delete" pressed: the DELETE, the commit and the
\* success message.
DeleteRecord(s) ==
    /\ pc[s].kind = "Delete"
    /\ LET t == pc[s].table
           rid == pc[s].rid
       IN  /\ db' = [db EXCEPT ![t] = delete(db[t], rid)]
           /\ last' = Done(s, "Delete", "Record deleted!", rid # None,
                           Matched(db[t], rid), FALSE)
    /\ pc' = [pc EXCEPT ![s] = Idle]
    /\ UNCHANGED << users, logged_in, user >>

\* A page that executes no statement but SELECTs.
ViewStep(s, T) ==
    \/ Home(s)
    \/ \E t \in T : Read(s, t)
    \/ ShowVisualizations(s)

\* A Create, Update or Delete page of a session that is past the guard, with
\* the tables it selects from T, the values it types from V, and whether it
\* presses the form's button from C.
FormStep(s, T, V, C) ==
    \/ \E t \in T, inputs \in Forms(V), clicked \in C :
          Create(s, t, inputs, clicked)
    \/ \E t \in T, clicked \in C : UpdateForm(s, t, clicked)
    \/ \E updates \in Forms(V) : UpdateSave(s, updates)
    \/ \E t \in T, clicked \in C : DeleteForm(s, t, clicked)
    \/ DeleteRecord(s)

\* ---------------------------------------------------------- specifications

\* The whole application: sign up, log in, log out and the table actions.
\* The operators select one table and leave the forms' default values.
Next ==
    \E s \in Sessions :
       \/ AuthStep(s)
       \/ ViewStep(s, GateTables)
       \/ FormStep(s, GateTables, DefaultValues, BOOLEAN)

Spec == Init /\ [][Next]_vars

\* Both sessions have signed up and logged in; from here on they fill and
\* submit the Create, Update and Delete forms with every value.
InitCrud ==
    /\ users = << [username |-> "alice", password |-> hash_pw("secret123")],
                  [username |-> "bob", password |-> hash_pw("wrong")] >>
    /\ db = [t \in tables |-> {}]
    /\ logged_in = [s \in Sessions |-> TRUE]
    /\ user = [s \in Sessions |-> Some(IF s = "A" THEN "alice" ELSE "bob")]
    /\ pc = [s \in Sessions |-> Idle]
    /\ last = [op |-> "Log In", msg |-> "Welcome", auth |-> FALSE,
               keyed |-> FALSE, matched |-> 0, stale |-> FALSE]

NextCrud == \E s \in Sessions : FormStep(s, CrudTables, Values, {TRUE})

SpecCrud == InitCrud /\ [][NextCrud]_vars

\* ================================================================== claims

TableOps == {"Read", "Create", "Update", "Delete", "Show Visualizations"}

\* C1: no Read, Create, Update, Delete or Show Visualizations page (and no
\* SELECT of a data table on its behalf) runs in a session that is not
\* logged in at that moment: every finished table action ran with logged_in
\* set, every request standing between its SELECT and its statement belongs
\* to a logged-in session, and a session that is logged out becomes logged in
\* again only through a successful login.
C1_GateHolds ==
    /\ [](/\ last.op \in TableOps => last.auth
          /\ \A s \in Sessions : pc[s].kind \in {"Update", "Delete"} => logged_in[s])
    /\ [][\A s \in Sessions :
            (~logged_in[s] /\ logged_in'[s]) =>
                (last'.op = "Log In" /\ last'.msg = "Welcome")]_vars

\* A table action has just run in a logged-in session while another session
\* has logged out again.
C1_Witness ==
    /\ last.op \in TableOps
    /\ last.auth
    /\ \E s \in Sessions : ~logged_in[s] /\ user[s] # None

\* C2: right after register(u, p) succeeds, verify(u, p) is true and
\* verify(u, p') is false for every other p'; verify(v, x) is false for every
\* username v without a credential, whatever x.
C2_VerifyAfterRegister ==
    /\ [](\A v \in TypedUsernames, x \in TypedPasswords :
             UserRows(v) = {} => ~check_credentials(users, v, x))
    /\ [][\A s \in Sessions :
            (pc[s].kind = "signup" /\ signup_insert(s)
                /\ last'.msg = "Account created!") =>
                /\ check_credentials(users', pc[s].u, pc[s].p)
                /\ \A q \in TypedPasswords \ {pc[s].p} :
                      ~check_credentials(users', pc[s].u, q)]_vars

\* An account has just been created and another username has none.
C2_Witness ==
    /\ last.op = "Sign Up"
    /\ last.msg = "Account created!"
    /\ \E v \in Usernames : UserRows(v) = {}

\* What a register call (the "Create account" button) with username u and
\* password p does in session s when u already has a credential: it shows
\* msg and leaves the users table alone.
RegisterOfTakenShows(s, u, p, msg) ==
    (UserRows(u) # {} /\ signup_page(s, u, p)) =>
        (last'.op = "Sign Up" /\ last'.msg = msg /\ users' = users
            /\ pc'[s] = Idle)

\* C3, as stated: a register call for a username that already has a
\* credential fails with DuplicateUser ("Username already taken.") whatever
\* password is given, and leaves the users table unchanged.
C3_DuplicateWhateverPassword ==
    [][\A s \in Sessions, u \in Usernames, p \in TypedPasswords :
          RegisterOfTakenShows(s, u, p, "Username already taken.")]_vars

\* C3, amended: a register call whose check finds the username taken fails
\* with DuplicateUser for every non-empty password and with InvalidInput for
\* the empty one; an INSERT that finds the username taken (the check ran
\* before another session's INSERT) is refused by the PRIMARY KEY constraint;
\* in each case the users table is unchanged.  No step removes or rewrites a
\* stored row, and the table never holds two rows with one username.
C3_DuplicateRefused ==
    /\ [](\A i, j \in 1..Len(users) :
             users[i].username = users[j].username => i = j)
    /\ [][/\ \A s \in Sessions, u \in Usernames :
               /\ \A p \in Passwords :
                     RegisterOfTakenShows(s, u, p, "Username already taken.")
               /\ RegisterOfTakenShows(s, u, "", "Both fields required.")
          /\ \A s \in Sessions :
               (pc[s].kind = "signup" /\ UserRows(pc[s].u) # {}
                   /\ signup_insert(s)) =>
                   (users' = users /\ last'.msg = "IntegrityError")
          /\ Len(users') >= Len(users)
          /\ \A i \in 1..Len(users) : users'[i] = users[i]]_vars

\* A register call has just failed with DuplicateUser while the register
\* call of another session, whose check ran before the username was
\* inserted, stands before its INSERT.
C3_Witness ==
    /\ last.op = "Sign Up"
    /\ last.msg = "Username already taken."
    /\ \E s \in Sessions : pc[s].kind = "signup" /\ UserRows(pc[s].u) # {}

\* C4, as stated: the session is always Anonymous (logged_in false and no
\* user) or Authenticated(u) (logged_in true and user = u).
C4_TwoStates ==
    \A s \in Sessions :
        \/ ~logged_in[s] /\ user[s] = None
        \/ logged_in[s] /\ user[s] # None

\* The UPDATE of session s: the request stood after its SELECT with the
\* selected key and the form, and this step executes the statement.
Saves(s, updates) == pc[s].kind = "Update" /\ UpdateSave(s, updates)

\* C5, as stated: after an update that is reported as done, the table holds
\* a row at that pk whose non-PK columns are exactly the submitted values and
\* whose pk is unchanged; every other row of the table and every other table
\* is as before, and the number of rows is the same.
C5_UpdateFrame ==
    [][\A s \in Sessions, updates \in Forms(Values) :
          (Saves(s, updates) /\ last'.msg = "Record updated!") =>
              LET t == pc[s].table
                  k == pc[s].rid[1]
              IN  /\ \E r \in db'[t] :
                        /\ r[pk] = k
                        /\ \A c \in form_columns : r[c] = updates[c]
                  /\ \A r \in db[t] : r[pk] # k => r \in db'[t]
                  /\ \A r \in db'[t] : r[pk] # k => r \in db[t]
                  /\ Cardinality(db'[t]) = Cardinality(db[t])
                  /\ \A o \in tables \ {t} : db'[o] = db[o]]_vars

\* C9, as stated: an update whose primary key matches no row fails: no row
\* is modified and nothing is reported as updated.
C9_UpdateOfMissingRowFails ==
    (last.op = "Update" /\ last.matched = 0) => last.msg # "Record updated!"

\* C6: a delete leaves no row with that pk and every other row, of that
\* table and of the others, as it was; a delete whose pk matches no row (the
\* row is gone already, or the key is NULL) shows the same success message
\* and changes nothing.
C6_DeleteIdempotent ==
    [][\A s \in Sessions :
          (pc[s].kind = "Delete" /\ DeleteRecord(s)) =>
              LET t == pc[s].table
                  rid == pc[s].rid
              IN  /\ \A r \in db'[t] : ~Matches(r, rid)
                  /\ db'[t] = { r \in db[t] : rid = None \/ r[pk] # rid[1] }
                  /\ \A o \in tables \ {t} : db'[o] = db[o]
                  /\ last'.msg = "Record deleted!"
                  /\ pc'[s] = Idle
                  /\ (\A r \in db[t] : ~Matches(r, rid)) => db' = db]_vars

\* A delete of a key that was selected from a fresh read, and that another
\* session deleted first, has just been reported as done; rows remain.
C6_Witness ==
    /\ last.op = "Delete"
    /\ last.msg = "Record deleted!"
    /\ last.keyed
    /\ last.matched = 0
    /\ TotalRows > 0

\* C7: a create adds exactly one row to the table: its non-PK fields are the
\* submitted values, its primary key is not among the form's fields and is
\* the key of no row that was there before; the rows that were there, and
\* the other tables, are unchanged.
C7_CreateAddsOneRow ==
    [][\A s \in Sessions, t \in tables, inputs \in Forms(Values) :
          (pc[s] = Idle /\ Create(s, t, inputs, TRUE)) =>
              /\ pk \notin DOMAIN inputs
              /\ last'.msg = "Record inserted!"
              /\ Cardinality(db'[t]) = Cardinality(db[t]) + 1
              /\ db[t] \subseteq db'[t]
              /\ \A r \in db'[t] \ db[t] :
                    /\ \A c \in form_columns : r[c] = inputs[c]
                    /\ r[pk] \notin PKs(db[t])
              /\ \A o \in tables \ {t} : db'[o] = db[o]]_vars

\* A record has just been inserted into a table that held a row before.
C7_Witness ==
    /\ last.op = "Create"
    /\ last.msg = "Record inserted!"
    /\ \E t \in tables : Cardinality(db[t]) >= 2

\* Session s runs the SELECT and the selectbox of an Update or Delete page
\* and goes on to the statement with the key it selected.
Selects(s) == pc[s] = Idle /\ pc'[s].kind \in {"Update", "Delete"}

\* Session s executes the UPDATE or DELETE of the key it selected.
Executes(s) == pc[s].kind \in {"Update", "Delete"} /\ pc'[s] = Idle

\* The statement a session executes touches no row but those of the selected
\* key, in the selected table.
TouchesOnlySelected(s) ==
    Executes(s) =>
        /\ \A r \in db[pc[s].table] : r \notin db'[pc[s].table] => Matches(r, pc[s].rid)
        /\ \A o \in tables \ {pc[s].table} : db'[o] = db[o]

\* Every key of the table as it stands can be selected in a request that
\* starts now, for Update as for Delete.
OffersEveryKey ==
    \A s \in Sessions, t \in tables :
      \A k \in PKs(db[t]) :
        pc[s] = Idle =>
            /\ ENABLED (UpdateForm(s, t, TRUE) /\ pc'[s].rid = Some(k))
            /\ ENABLED (DeleteForm(s, t, TRUE) /\ pc'[s].rid = Some(k))

\* C8, as stated: the key an Update or Delete page goes on with is one of
\* the primary keys of the table as read in that same request, whatever other
\* sessions did to the table before, and the statement executed targets it.
C8_TargetInFreshRead ==
    [][\A s \in Sessions :
          /\ Selects(s) =>
                /\ pc'[s].rid # None
                /\ pc'[s].rid[1] \in PKs(db[pc'[s].table])
          /\ TouchesOnlySelected(s)]_vars

\* C8, amended: the keys offered are exactly the primary keys of the table
\* as read in that same request, and the key a page goes on with is one of
\* them whenever there is one.  On a table read empty nothing is offered:
\* the Update page stops before any statement, and the Delete page goes on
\* with a NULL key, whose DELETE matches no row.  The statement executed
\* touches only rows of the key selected.
C8_TargetInFreshReadOrNull ==
    /\ []OffersEveryKey
    /\ [][\A s \in Sessions :
            /\ Selects(s) =>
                  IF PKs(db[pc'[s].table]) = {}
                  THEN pc'[s].kind = "Delete" /\ pc'[s].rid = None
                  ELSE /\ pc'[s].rid # None
                       /\ pc'[s].rid[1] \in PKs(db[pc'[s].table])
            /\ TouchesOnlySelected(s)
            /\ (Executes(s) /\ pc[s].rid = None) => db' = db]_vars

\* A DELETE with a NULL key has just been executed on an empty table while
\* another session stands before the statement of a key it selected from a
\* fresh read.
C8_Witness ==
    /\ last.op = "Delete"
    /\ ~last.keyed
    /\ \E s \in Sessions :
          /\ pc[s].kind \in {"Update", "Delete"}
          /\ pc[s].rid # None
          /\ pc[s].rid[1] \in PKs(db[pc[s].table])

\* C10: a save is never rejected for the row having changed since the form
\* was filled: when the row still exists the UPDATE is reported as done and
\* the row then holds the submitted value in every non-PK column, those equal
\* to the value the form was filled with (not edited) included, whatever the
\* row held just before.
C10_LastWriteWins ==
    [][\A s \in Sessions, updates \in Forms(Values) :
          (Saves(s, updates) /\ Matched(db[pc[s].table], pc[s].rid) > 0) =>
              /\ last'.msg = "Record updated!"
              /\ pc'[s] = Idle
              /\ \A r \in db'[pc[s].table] :
                    Matches(r, pc[s].rid) =>
                        \A c \in form_columns :
                            /\ r[c] = updates[c]
                            /\ updates[c] = pc[s].record[c] => r[c] = pc[s].record[c]]_vars

\* A session has just saved a row that another session had changed after
\* the form was filled, and the save was reported as done.
C10_Witness ==
    /\ last.op = "Update"
    /\ last.msg = "Record updated!"
    /\ last.matched = 1
    /\ last.stale

\* ------------------------------------------------------- supporting facts

\* What of C4 the code does keep: a session starts with logged_in unset and
\* no user; logged_in becomes set only by a login whose credentials verify,
\* which also sets user to the verified username; a failed login changes
\* neither; while logged_in is set, user is the username logged in; Log Out
\* unsets logged_in (and leaves user as it was).
C4_LoginLogoutTransitions ==
    /\ [](\A s \in Sessions : logged_in[s] => user[s] # None)
    /\ [][\A s \in Sessions :
            /\ (~logged_in[s] /\ logged_in'[s]) =>
                  \E u \in Usernames, p \in Passwords :
                     check_credentials(users, u, p) /\ user'[s] = Some(u)
            /\ (~logged_in[s] /\ ~logged_in'[s]) => user'[s] = user[s]
            /\ (logged_in[s] /\ ~logged_in'[s]) =>
                  (last'.op = "Log Out" /\ user'[s] = user[s])
            /\ (logged_in[s] /\ logged_in'[s]) => user'[s] = user[s]]_vars

\* What of C5 the code does keep: when a row of the selected key is in the
\* table as the UPDATE executes, the statement leaves that row with its key
\* and the submitted values, and every other row and table as before.
C5_FrameWhenRowExists ==
    [][\A s \in Sessions, updates \in Forms(Values) :
          (Saves(s, updates) /\ Matched(db[pc[s].table], pc[s].rid) > 0) =>
              LET t == pc[s].table
                  k == pc[s].rid[1]
              IN  /\ \E r \in db'[t] :
                        /\ r[pk] = k
                        /\ \A c \in form_columns : r[c] = updates[c]
                  /\ \A r \in db[t] : r[pk] # k => r \in db'[t]
                  /\ \A r \in db'[t] : r[pk] # k => r \in db[t]
                  /\ Cardinality(db'[t]) = Cardinality(db[t])
                  /\ \A o \in tables \ {t} : db'[o] = db[o]]_vars

====
